---- MODULE Spec2Model ----
(***************************************************************************)
(* Model of back_end/two_marker_detect.py: calculate_two_markers,          *)
(* get_scale and get_diff_two_markers_px.                                  *)
(*                                                                         *)
(* Units.  The detector reports sub-pixel corner coordinates; here a raw   *)
(* coordinate is a natural number of HALF pixels (81 is 40.5 px).  After   *)
(* the cleaning step (round(x), lines 81-82) coordinates are whole pixels. *)
(* Floating point values are exact rationals <<n, d>> in lowest terms with *)
(* d > 0; <<1, 0>> is +inf and <<0, 0>> is NaN, as numpy produces them on  *)
(* a division by zero.  Sequences are 1-based: Python index i is i + 1.    *)
(***************************************************************************)
EXTENDS Integers, Sequences, FiniteSets, TLC

\* ------------------------------------------------------------------ bounds
\* Largest sub-pixel shift (in half pixels) applied to a marker's position.
MaxShift == 1
\* Largest number of markers the detector reports in one image.
MaxMarkers == 3
\* Largest y of a point handed to get_diff_two_markers_px called on its own.
DiffMaxY == 1

\* ------------------------------------------------------- Python built-ins
Range(s) == {s[i] : i \in 1..Len(s)}

min(s) == CHOOSE m \in Range(s) : \A v \in Range(s) : m <= v

max(s) == CHOOSE m \in Range(s) : \A v \in Range(s) : m >= v

\* list.index(v): the first position holding v.
index(s, v) == CHOOSE i \in 1..Len(s) : s[i] = v /\ \A j \in 1..(i - 1) : s[j] # v

\* list.remove(v): the list without the first occurrence of v.
remove(s, v) == SubSeq(s, 1, index(s, v) - 1) \o SubSeq(s, index(s, v) + 1, Len(s))

abs(a) == IF a < 0 THEN -a ELSE a

\* round(x) of a non-negative value given in half pixels: to the nearest
\* whole pixel, a half going to the even neighbour.
round(n) ==
    LET q == n \div 2
    IN  IF n % 2 = 0 THEN q ELSE IF q % 2 = 0 THEN q ELSE q + 1

\* ------------------------------------------------------------- rationals
RECURSIVE GCD(_, _)
GCD(a, b) == IF b = 0 THEN a ELSE GCD(b, a % b)

Reduce(n, d) ==
    IF d = 0 THEN (IF n = 0 THEN <<0, 0>> ELSE <<1, 0>>)
    ELSE LET g == GCD(abs(n), d) IN <<n \div g, d \div g>>

RInt(k) == <<k, 1>>

RAdd(a, b) ==
    IF a[2] = 0 /\ b[2] = 0 THEN (IF a[1] = 0 \/ b[1] = 0 THEN <<0, 0>> ELSE <<1, 0>>)
    ELSE Reduce(a[1] * b[2] + b[1] * a[2], a[2] * b[2])

RMul(a, b) == Reduce(a[1] * b[1], a[2] * b[2])

RDiv(a, b) == Reduce(a[1] * b[2], a[2] * b[1])

RLe(a, b) == a[1] * b[2] <= b[1] * a[2]

RLt(a, b) == a[1] * b[2] < b[1] * a[2]

\* math.ceil of a finite non-negative rational.
ceil(a) == (a[1] + a[2] - 1) \div a[2]

floor(a) == a[1] \div a[2]

\* Integer square root; every marker side of the model has an integer length.
RECURSIVE isqrt_between(_, _, _)
isqrt_between(n, lo, hi) ==
    IF lo = hi THEN lo
    ELSE LET mid == (lo + hi + 1) \div 2
         IN  IF mid * mid <= n THEN isqrt_between(n, mid, hi)
             ELSE isqrt_between(n, lo, mid - 1)

isqrt(n) == isqrt_between(n, 0, n)

\* mm per inch, imported from one_marker_detect.
MM_IN_RATIO == <<127, 5>>

\* ------------------------------------------------------------- get_scale
\* np.linalg.norm(a - b), in half pixels.
norm(a, b) == isqrt((a[1] - b[1]) * (a[1] - b[1]) + (a[2] - b[2]) * (a[2] - b[2]))

\* The sum of the four side lengths, in half pixels.
SideSum(m) == norm(m[1], m[2]) + norm(m[2], m[3]) + norm(m[3], m[4]) + norm(m[4], m[1])

\* np.average(norms), in pixels.
get_scale(m) == Reduce(SideSum(m), 8)

\* ------------------------------------------------ get_diff_two_markers_px
\* Lines 166-183: the positions of the two top and the two bottom points.
y_idx(coords) ==
    LET y_coords == [i \in 1..Len(coords) |-> coords[i][2]]
        y_1 == min(y_coords)
        tmp1 == remove(y_coords, y_1)
        y_2 == min(tmp1)
        y_3 == max(tmp1)
        tmp2 == remove(tmp1, y_3)
        y_4 == max(tmp2)
    IN  [y_1_idx |-> index(y_coords, y_1),
         y_2_idx |-> index(y_coords, y_2),
         y_3_idx |-> index(y_coords, y_3),
         y_4_idx |-> index(y_coords, y_4)]

pick_extremes_swapped(coords, i, diagonal) ==
    LET p1 == coords[i.y_1_idx]
        p2 == coords[i.y_2_idx]
        p3 == coords[i.y_3_idx]
        p4 == coords[i.y_4_idx]
    IN  IF diagonal = "TLBR"
        THEN [t |-> IF p1[1] > p2[1] THEN p1 ELSE p2,
              b |-> IF p3[1] > p4[1] THEN p3 ELSE p4]
        ELSE [t |-> IF p1[1] > p2[1] THEN p1 ELSE p2,
              b |-> IF p3[1] < p4[1] THEN p3 ELSE p4]

\* Lines 185-225: the top and the bottom extreme for a valid diagonal.
pick_extremes(coords, i, diagonal) ==
    LET p1 == coords[i.y_1_idx]
        p2 == coords[i.y_2_idx]
        p3 == coords[i.y_3_idx]
        p4 == coords[i.y_4_idx]
    IN  IF diagonal = "TLBR"
        THEN [t |-> IF p1[1] < p2[1] THEN p1 ELSE p2,
              b |-> IF p3[1] > p4[1] THEN p3 ELSE p4]
        ELSE [t |-> IF p1[1] > p2[1] THEN p1 ELSE p2,
              b |-> IF p3[1] < p4[1] THEN p3 ELSE p4]

\* The four-tuple (top x, top y, bottom x, bottom y) returned, given the
\* four positions i found by lines 166-183.
get_diff_two_markers_px(coords, i, diagonal) ==
    LET e == pick_extremes(coords, i, diagonal)
    IN  <<e.t[1], e.t[2], e.b[1], e.b[2]>>

\* ------------------------------------------- calculate_two_markers, steps
\* Line 74: ids is None (no marker found, modelled as the empty sequence)
\* or len(ids) != 2.
wrong_count_below_two(i) == Len(i) < 2

wrong_count(i) == Len(i) = 0 \/ Len(i) # 2

\* Line 78: the average of the two markers' scales, in pixels.
average_scale(c) == RDiv(RAdd(get_scale(c[1]), get_scale(c[2])), RInt(2))

\* Lines 81-82: every coordinate rounded to a whole pixel.
clean(c) == [k \in 1..Len(c) |-> [i \in 1..4 |-> <<round(c[k][i][1]), round(c[k][i][2])>>]]

\* Line 83: np.concatenate of the two cleaned markers.
concatenate(c) == c[1] \o c[2]

is_top_marker_left_by_x(c) ==
    LET top == IF c[1][1][1] < c[2][1][1] THEN c[1] ELSE c[2]
        bottom == IF c[1][1][1] < c[2][1][1] THEN c[2] ELSE c[1]
    IN  top[1][1] < bottom[1][1]

\* Lines 87-94, on the cleaned markers.
is_top_marker_left(c) ==
    LET top_marker_coords == IF c[1][1][1] < c[2][1][1] THEN c[1] ELSE c[2]
        bottom_marker_coords == IF c[1][1][1] < c[2][1][1] THEN c[2] ELSE c[1]
    IN  top_marker_coords[1][2] < bottom_marker_coords[1][2]

\* Lines 97-101: the diagonal passed to get_diff_two_markers_px.
diagonal_of(c) == IF is_top_marker_left(c) THEN "TLBR" ELSE "TRBL"

\* Lines 104-105: (h_px, w_px).
extents(r) == <<abs(r[1] - r[3]), abs(r[2] - r[4])>>

\* Lines 108-111: one dimension in inches, before rounding.
to_inches(len_px, scale, size_mm, border) ==
    LET scale_mm == RDiv(RInt(size_mm), scale)
    IN  RAdd(RDiv(RMul(RInt(len_px), scale_mm), MM_IN_RATIO), RMul(border, RInt(2)))

round_half_down(v) == Reduce(floor(RMul(v, RInt(2))), 2)

\* Lines 114-115: math.ceil(v * 2) / 2 of a finite value.
round_half_up(v) == Reduce(ceil(RMul(v, RInt(2))), 2)

\* Lines 108-117 as one step: the return value, or the exception math.ceil
\* raises on a non-finite value.
convert(px, scale, size_mm, border) ==
    LET h == to_inches(px[1], scale, size_mm, border)
        w == to_inches(px[2], scale, size_mm, border)
    IN  IF h = <<0, 0>> THEN [pc |-> "error_nan", result |-> <<>>]
        ELSE IF h = <<1, 0>> THEN [pc |-> "error_overflow", result |-> <<>>]
        ELSE IF w = <<0, 0>> THEN [pc |-> "error_nan", result |-> <<>>]
        ELSE IF w = <<1, 0>> THEN [pc |-> "error_overflow", result |-> <<>>]
        ELSE [pc |-> "done", result |-> <<round_half_up(h), round_half_up(w)>>]

\* The whole of lines 78-117 for a detection of exactly two markers.
calculate(c, size_mm, border) ==
    LET cc == clean(c)
        r == get_diff_two_markers_px(concatenate(cc), y_idx(concatenate(cc)), diagonal_of(cc))
    IN  convert(extents(r), average_scale(c), size_mm, border)

\* ------------------------------------------------------ detector outcomes
\* An axis-aligned square marker, corners clockwise from its top-left.
Square(x, y, s) == <<<<x, y>>, <<x + s, y>>, <<x + s, y + s>>, <<x, y + s>>>>

\* A square marker tilted by atan(3/4), side 5k, corners clockwise from the top one.
Tilted(x, y, k) ==
    <<<<x + 3 * k, y>>, <<x + 7 * k, y + 3 * k>>, <<x + 4 * k, y + 7 * k>>, <<x, y + 4 * k>>>>

\* A degenerate detection: the four corners coincide.
Point(x, y) == <<<<x, y>>, <<x, y>>, <<x, y>>, <<x, y>>>>

\* The same physical corners listed from another starting corner, as the
\* detector does for a marker turned by r quarter turns.
Rotate(m, r) == [i \in 1..4 |-> m[((i - 1 + r) % 4) + 1]]

\* Marker positions in half pixels: the corners of a 400 x 300 px window for
\* 40 px markers, each shifted by up to MaxShift half pixels.
Xs == {b + s : b \in {0, 720}, s \in 0..MaxShift}
Ys == {b + s : b \in {0, 520}, s \in 0..MaxShift}

SquareMarkers == {Rotate(Square(x, y, 80), r) : x \in Xs, y \in Ys, r \in 0..3}
TiltedMarkers == {Rotate(Tilted(x, y, 16), r) : x \in {0, 720}, y \in {0, 520}, r \in 0..3}
PointMarkers == {Point(x, y) : x \in Xs, y \in {0, 520}}
Markers == SquareMarkers \cup TiltedMarkers \cup PointMarkers

\* What detectMarkers may return: no marker, or 1..MaxMarkers of them.  Only
\* a detection of two markers is read past line 74; the others are drawn
\* from the unshifted upright squares.
Detections ==
    {<<>>} \cup [1..2 -> Markers]
           \cup UNION {[1..n -> {Square(x, y, 80) : x \in {0, 720}, y \in {0}}] :
                       n \in (1..MaxMarkers) \ {2}}

Sizes == {20, 50}
Borders == {<<0, 1>>, <<1, 8>>}

VARIABLES pc, marker_size_mm, border_offset_in, ids, corners, scale_px,
          corner_coords, diagonal, idx, ret, result

vars == <<pc, marker_size_mm, border_offset_in, ids, corners, scale_px,
          corner_coords, diagonal, idx, ret, result>>

\* A call of calculate_two_markers(path, marker_size_mm, marker_type, border_offset_in).
Init ==
    /\ pc = "start"
    /\ marker_size_mm \in Sizes
    /\ border_offset_in \in Borders
    /\ ids = <<>>
    /\ corners = <<>>
    /\ scale_px = <<>>
    /\ corner_coords = <<>>
    /\ diagonal = ""
    /\ idx = <<>>
    /\ ret = <<>>
    /\ result = <<>>

\* Lines 53-71: the detector's answer, one id per marker found.
Detected(d) ==
    /\ pc' = "detected"
    /\ corners' = d
    /\ ids' = [i \in 1..Len(d) |-> i]
    /\ UNCHANGED <<marker_size_mm, border_offset_in, scale_px, corner_coords,
                   diagonal, idx, ret, result>>

\* Lines 56-60: marker_type == "ArUco".
DetectArUco == pc = "start" /\ \E d \in Detections : Detected(d)

\* Lines 61-71: marker_type == "AprilTag".
DetectAprilTag == pc = "start" /\ \E d \in Detections : Detected(d)

\* Lines 74-75.
RaiseWrongCount ==
    /\ pc = "detected"
    /\ wrong_count(ids)
    /\ pc' = "error_count"
    /\ UNCHANGED <<marker_size_mm, border_offset_in, ids, corners, scale_px,
                   corner_coords, diagonal, idx, ret, result>>

\* Line 78.
AverageScale ==
    /\ pc = "detected"
    /\ ~wrong_count(ids)
    /\ scale_px' = average_scale(corners)
    /\ pc' = "scaled"
    /\ UNCHANGED <<marker_size_mm, border_offset_in, ids, corners,
                   corner_coords, diagonal, idx, ret, result>>

\* Lines 81-101: clean the corners, find the diagonal, get the two extremes.
FindDiagonal ==
    /\ pc = "scaled"
    /\ corner_coords' = concatenate(clean(corners))
    /\ diagonal' = diagonal_of(clean(corners))
    /\ idx' = y_idx(corner_coords')
    /\ ret' = get_diff_two_markers_px(corner_coords', idx', diagonal')
    /\ pc' = "measured"
    /\ UNCHANGED <<marker_size_mm, border_offset_in, ids, corners, scale_px, result>>

\* Lines 104-117: return (h_in, w_in), or math.ceil raises on inf or NaN.
Convert ==
    /\ pc = "measured"
    /\ LET c == convert(extents(ret), scale_px, marker_size_mm, border_offset_in)
       IN  pc' = c.pc /\ result' = c.result
    /\ UNCHANGED <<marker_size_mm, border_offset_in, ids, corners, scale_px,
                   corner_coords, diagonal, idx, ret>>

Next ==
    \/ DetectArUco
    \/ DetectAprilTag
    \/ RaiseWrongCount
    \/ AverageScale
    \/ FindDiagonal
    \/ Convert

Spec == Init /\ [][Next]_vars

\* ------------------------------ get_diff_two_markers_px called on its own
\* Pixel points of the lists the function is called with: a 2 x 2 grid, and
\* further rows on its first column up to y = DiffMaxY.
DiffPoints ==
    {<<x, y>> : x \in 0..1, y \in 0..1} \cup {<<0, y>> : y \in 2..DiffMaxY}

\* A call get_diff_two_markers_px(coords, diagonal) with 8 points (two
\* markers' corners) and any string as the diagonal.
InitDiff ==
    /\ pc = "diff_call"
    /\ \/ corner_coords \in [1..8 -> DiffPoints] /\ diagonal \in {"TLBR", "TRBL"}
       \/ corner_coords \in [1..8 -> {<<0, 0>>, <<1, 1>>}] /\ diagonal = "TBLR"
    /\ marker_size_mm = 0
    /\ border_offset_in = <<0, 1>>
    /\ ids = <<>>
    /\ corners = <<>>
    /\ scale_px = <<>>
    /\ idx = <<>>
    /\ ret = <<>>
    /\ result = <<>>

\* Lines 165-210 and 214-225: a valid diagonal, the four-tuple is returned.
DiffReturn ==
    /\ pc = "diff_call"
    /\ diagonal \in {"TLBR", "TRBL"}
    /\ idx' = y_idx(corner_coords)
    /\ ret' = get_diff_two_markers_px(corner_coords, idx', diagonal)
    /\ pc' = "diff_done"
    /\ UNCHANGED <<marker_size_mm, border_offset_in, ids, corners, scale_px,
                   corner_coords, diagonal, result>>

\* Lines 211-212: any other diagonal raises ValueError.
DiffRaise ==
    /\ pc = "diff_call"
    /\ diagonal \notin {"TLBR", "TRBL"}
    /\ pc' = "diff_error"
    /\ UNCHANGED <<marker_size_mm, border_offset_in, ids, corners, scale_px,
                   corner_coords, diagonal, idx, ret, result>>

NextDiff == DiffReturn \/ DiffRaise

SpecDiff == InitDiff /\ [][NextDiff]_vars

\* ================================================================ claims
\* The four points get_diff_two_markers_px chose among, for the call in the state.
TopPair == <<corner_coords[idx.y_1_idx], corner_coords[idx.y_2_idx]>>
BottomPair == <<corner_coords[idx.y_3_idx], corner_coords[idx.y_4_idx]>>
TopExtreme == <<ret[1], ret[2]>>
BottomExtreme == <<ret[3], ret[4]>>

IsDegenerate(m) == m[1] = m[2] /\ m[2] = m[3] /\ m[3] = m[4]

Swapped(c) == <<c[2], c[1]>>

\* Markers a and b have no coordinate j (1: x, 2: y) in common: one lies
\* wholly before the other.
Disjoint(a, b, j) ==
    \/ \A i1 \in 1..4, i2 \in 1..4 : a[i1][j] < b[i2][j]
    \/ \A i1 \in 1..4, i2 \in 1..4 : b[i1][j] < a[i2][j]

C2_OrderIndependent ==
    (/\ pc = "done"
     /\ ~IsDegenerate(corners[1]) /\ ~IsDegenerate(corners[2])
     /\ Disjoint(corners[1], corners[2], 1)) =>
        calculate(Swapped(corners), marker_size_mm, border_offset_in)
            = [pc |-> "done", result |-> result]

\* C3: two upright 40 px markers on the corners of a 400 x 300 px window,
\* 20 mm markers, no border: (8.0, 6.0) is returned, on either diagonal.
C3_Scenario ==
    /\ marker_size_mm = 20
    /\ border_offset_in = <<0, 1>>
    /\ corners \in {<<Square(0, 0, 80), Square(720, 520, 80)>>,
                    <<Square(720, 520, 80), Square(0, 0, 80)>>,
                    <<Square(720, 0, 80), Square(0, 520, 80)>>,
                    <<Square(0, 520, 80), Square(720, 0, 80)>>}

C3_ConcreteScenario ==
    (pc \in {"done", "error_nan", "error_overflow"} /\ C3_Scenario) =>
        (pc = "done" /\ result = <<<<8, 1>>, <<6, 1>>>>)

\* The first corners of the two cleaned markers, as lines 87-94 read them.
First(k) == clean(corners)[k][1]

\* The cleaned markers with their x positions exchanged: each is moved along
\* x so that its first corner takes the other's x; every y is kept.
ExchangeX(c) ==
    [k \in 1..2 |->
        [i \in 1..4 |-> <<c[k][i][1] + c[3 - k][1][1] - c[k][1][1], c[k][i][2]>>]]

\* C4: when the marker whose first corner has the strictly smaller x also
\* has the strictly smaller first-corner y, the diagonal passed on is TLBR,
\* and with the two x positions exchanged it is TRBL; every input gets
\* exactly one of the two diagonals.
C4_DiagonalClassification ==
    pc \in {"measured", "done", "error_nan", "error_overflow"} =>
        /\ diagonal \in {"TLBR", "TRBL"}
        /\ diagonal = diagonal_of(clean(corners))
        /\ (\E k \in 1..2 : /\ First(k)[1] < First(3 - k)[1]
                            /\ First(k)[2] < First(3 - k)[2]) =>
               /\ diagonal = "TLBR"
               /\ diagonal_of(ExchangeX(clean(corners))) = "TRBL"

C4_Witness ==
    /\ pc = "done"
    /\ diagonal = "TLBR"
    /\ First(2)[1] < First(1)[1]
    /\ First(2)[2] < First(1)[2]

\* C5: a marker whose four corners coincide makes the call end in an error,
\* never in a returned (height, width), also when the other marker is fine.
C5_DegenerateRaises ==
    (Len(ids) = 2 /\ \E k \in 1..2 : IsDegenerate(corners[k])) => pc # "done"

\* The value of dimension i (1: height, 2: width) before rounding.
Unrounded(i) == to_inches(extents(ret)[i], scale_px, marker_size_mm, border_offset_in)

\* C6: each returned value is a non-negative multiple of 0.5 and is the
\* unrounded value rounded up: r >= v and r - v < 0.5.
C6_RoundsUpToHalf ==
    pc = "done" =>
        \A i \in 1..2 :
            /\ result[i][2] > 0
            /\ result[i][1] >= 0
            /\ (2 * result[i][1]) % result[i][2] = 0
            /\ RLe(Unrounded(i), result[i])
            /\ RLt(RAdd(result[i], <<-Unrounded(i)[1], Unrounded(i)[2]>>), <<1, 2>>)

C6_Witness ==
    /\ pc = "done"
    /\ border_offset_in = <<1, 8>>
    /\ ~IsDegenerate(corners[1]) /\ ~IsDegenerate(corners[2])
    /\ extents(ret)[1] > 0 /\ extents(ret)[2] > 0
    /\ RLt(Unrounded(1), result[1])
    /\ RLt(Unrounded(2), result[2])

\* An upright square marker listed from any of its corners.
IsUprightSquare(m) ==
    \E x \in Xs, y \in Ys, r \in 0..3 : m = Rotate(Square(x, y, 80), r)

\* C7: for two upright square markers in opposing corners, listing either
\* marker's corners from another starting corner leaves the result unchanged.
C7_CornerStartIndependent ==
    (/\ pc = "done"
     /\ IsUprightSquare(corners[1]) /\ IsUprightSquare(corners[2])
     /\ Disjoint(corners[1], corners[2], 1) /\ Disjoint(corners[1], corners[2], 2)) =>
        \A r1 \in 0..3, r2 \in 0..3 :
            calculate(<<Rotate(corners[1], r1), Rotate(corners[2], r2)>>,
                      marker_size_mm, border_offset_in)
                = [pc |-> "done", result |-> result]

\* The y values of the call's points in ascending order.
RECURSIVE SortedYs(_)
SortedYs(ys) == IF ys = <<>> THEN <<>> ELSE <<min(ys)>> \o SortedYs(remove(ys, min(ys)))

AllYs == SortedYs([i \in 1..Len(corner_coords) |-> corner_coords[i][2]])

\* C8: the top pair is two different points holding the two smallest y
\* values of the 8, the bottom pair two different points holding the two
\* largest.
C8_PairsAreTwoPoints ==
    pc = "diff_done" =>
        /\ idx = y_idx(corner_coords)
        /\ idx.y_1_idx # idx.y_2_idx
        /\ idx.y_3_idx # idx.y_4_idx
        /\ TopPair[1][2] = AllYs[1] /\ TopPair[2][2] = AllYs[2]
        /\ BottomPair[1][2] = AllYs[8] /\ BottomPair[2][2] = AllYs[7]

\* C9: the returned extremes are points of the list, taken from the top pair
\* and the bottom pair by x: TLBR takes the smaller x on top and the larger
\* x at the bottom, TRBL the larger x on top and the smaller at the bottom.
C9_ExtremesByLayout ==
    pc = "diff_done" =>
        /\ TopExtreme \in Range(corner_coords) /\ BottomExtreme \in Range(corner_coords)
        /\ TopExtreme \in Range(TopPair) /\ BottomExtreme \in Range(BottomPair)
        /\ diagonal = "TLBR" =>
               /\ TopExtreme[1] = min(<<TopPair[1][1], TopPair[2][1]>>)
               /\ BottomExtreme[1] = max(<<BottomPair[1][1], BottomPair[2][1]>>)
        /\ diagonal = "TRBL" =>
               /\ TopExtreme[1] = max(<<TopPair[1][1], TopPair[2][1]>>)
               /\ BottomExtreme[1] = min(<<BottomPair[1][1], BottomPair[2][1]>>)

C9_Witness ==
    /\ pc = "diff_done"
    /\ diagonal = "TRBL"
    /\ idx.y_1_idx # idx.y_2_idx
    /\ TopPair[1][1] < TopPair[2][1]
    /\ TopExtreme = TopPair[2]
    /\ BottomExtreme = BottomPair[1]

\* C10: when the two points of a pair have equal x, the one extracted first
\* (the minimum-y point on top, the maximum-y point at the bottom) is the
\* extreme returned, for both diagonals.
C10_FirstExtractedWinsTies ==
    pc = "diff_done" =>
        /\ TopPair[1][1] = TopPair[2][1] => TopExtreme = TopPair[1]
        /\ BottomPair[1][1] = BottomPair[2][1] => BottomExtreme = BottomPair[1]

====
